---- MODULE Spec2Model ----
(***************************************************************************)
(* Model of the @leyyo/entity contracts: the entity shapes, the repository *)
(* contract and the service contract.                                      *)
(*                                                                         *)
(* The repository holds declarations only.  The model has three parts:     *)
(*  - the shape declarations as member tables, with TypeScript's           *)
(*    structural conformance of a value to a shape (SpecShape);            *)
(*  - the method catalogs as tables, with conformance of an implementing   *)
(*    object to a catalog (SpecImpl);                                      *)
(*  - the behaviour the signatures and their doc comments prescribe for a  *)
(*    service over a record store (SpecService).                           *)
(***************************************************************************)
EXTENDS Integers, FiniteSets, Sequences, TLC

VARIABLES value, impl, store, last

vars == <<value, impl, store, last>>

(***************************************************************************)
(* Bounds                                                                  *)
(***************************************************************************)
\* A probed value carries at most this many own properties.
MaxProps == 2
\* A probed implementation provides at most this many methods.
MaxImpl == 2
\* Ids are 1..MaxIds.
MaxIds == 2

(***************************************************************************)
(* Types and values                                                        *)
(***************************************************************************)
\* Runtime kinds of a property value.
Tags == {"str", "num", "map", "date", "arr", "fn"}
Absent == "absent"

\* export type ID = string | number
ID == {"str", "num"}
\* export type NAME = string | Record<string, string>
NAME == {"str", "map"}

\* The type arguments an id parameter I (extends ID) can take.
IdTypes == {"string", "number", "ID"}
\* The type arguments a name parameter N (extends NAME) can take.
NameTypes == {"string", "i18n", "NAME"}

\* The runtime kinds a declared member type admits, for type arguments I, N.
Denotes(type, I, N) ==
    LET ground(t) ==
            CASE t = "string"  -> {"str"}
              [] t = "number"  -> {"num"}
              [] t = "i18n"    -> {"map"}
              [] t = "ID"      -> ID
              [] t = "NAME"    -> NAME
              [] t = "Date"    -> {"date"}
              [] t = "Array<string>" -> {"arr"}
              [] t = "method"  -> {"fn"}
              [] t = "unknown" -> Tags
    IN  CASE type = "I" -> ground(I)
          [] type = "N" -> ground(N)
          [] OTHER      -> ground(type)

\* A declared member: name?: type  (optional = TRUE)  or  name: type.
Member(name, type, optional) ==
    [name |-> name, type |-> type, optional |-> optional]

(***************************************************************************)
(* Shape declarations: index.types.ts                                      *)
(***************************************************************************)
EntityIdLike ==
    [parent |-> "Record",
     own    |-> {Member("id", "I", TRUE), Member("toJSON", "method", TRUE)}]

EntityLike ==
    [parent |-> "EntityIdLike",
     own    |-> {Member("name", "N", TRUE)}]

PairLike_RequiredName ==
    [parent |-> "EntityIdLike",
     own    |-> {Member("name", "string", FALSE)}]

PairLike ==
    [parent |-> "EntityIdLike",
     own    |-> {Member("name", "string", TRUE)}]

RichEntityLike_ExtendsId ==
    [parent |-> "EntityIdLike",
     own    |-> {Member("createdAt", "Date", TRUE),
                 Member("createdBy", "unknown", TRUE),
                 Member("updatedAt", "Date", TRUE),
                 Member("updatedBy", "unknown", TRUE),
                 Member("$version", "number", TRUE),
                 Member("$release", "number", TRUE),
                 Member("$irregulars", "Array<string>", TRUE),
                 Member("$trash", "unknown", TRUE),
                 Member("$search", "unknown", TRUE)}]

RichEntityLike ==
    [parent |-> "EntityLike",
     own    |-> {Member("createdAt", "Date", TRUE),
                 Member("createdBy", "unknown", TRUE),
                 Member("updatedAt", "Date", TRUE),
                 Member("updatedBy", "unknown", TRUE),
                 Member("$version", "number", TRUE),
                 Member("$release", "number", TRUE),
                 Member("$irregulars", "Array<string>", TRUE),
                 Member("$trash", "unknown", TRUE),
                 Member("$search", "unknown", TRUE)}]

(***************************************************************************)
(* Shape declarations: base-*.ts                                           *)
(***************************************************************************)
BaseIdLike ==
    [parent |-> "Record",
     own    |-> {Member("id", "I", TRUE), Member("toJSON", "method", TRUE)}]

BaseEntityLike ==
    [parent |-> "BaseIdLike",
     own    |-> {Member("name", "N", TRUE)}]

BasePairLike ==
    [parent |-> "BaseIdLike",
     own    |-> {Member("name", "string", TRUE)}]

BaseRichEntityLike ==
    [parent |-> "BaseEntityLike",
     own    |-> {Member("createdAt", "Date", TRUE),
                 Member("createdBy", "unknown", TRUE),
                 Member("updatedAt", "Date", TRUE),
                 Member("updatedBy", "unknown", TRUE),
                 Member("$version", "number", TRUE),
                 Member("$release", "number", TRUE),
                 Member("$irregulars", "Array<string>", TRUE),
                 Member("$trash", "unknown", TRUE),
                 Member("$search", "unknown", TRUE)}]

\* The declared interfaces by name.  "Record" is Record<string, unknown|any>:
\* an index signature that admits every property and declares no member.
Shapes ==
    [EntityIdLike       |-> EntityIdLike,
     EntityLike         |-> EntityLike,
     PairLike           |-> PairLike,
     RichEntityLike     |-> RichEntityLike,
     BaseIdLike         |-> BaseIdLike,
     BaseEntityLike     |-> BaseEntityLike,
     BasePairLike       |-> BasePairLike,
     BaseRichEntityLike |-> BaseRichEntityLike]

\* The two declaration families and the interface each gives a role.
Families == {"index", "base"}
ShapeOf ==
    [index |-> [identity |-> "EntityIdLike", entity |-> "EntityLike",
                pair |-> "PairLike", rich |-> "RichEntityLike"],
     base  |-> [identity |-> "BaseIdLike", entity |-> "BaseEntityLike",
                pair |-> "BasePairLike", rich |-> "BaseRichEntityLike"]]

\* interface A extends B: the members of A are its own and those of B.
RECURSIVE Members(_)
Members(s) ==
    IF s = "Record" THEN {}
    ELSE Shapes[s].own \cup
         {m \in Members(Shapes[s].parent) :
             \A o \in Shapes[s].own : o.name # m.name}

MemberNames(s) == {m.name : m \in Members(s)}

\* Structural conformance of value v to interface s<I, N>.
Conforms(v, s, I, N) ==
    \A m \in Members(s) :
        IF v[m.name] = Absent THEN m.optional
        ELSE v[m.name] \in Denotes(m.type, I, N)

(***************************************************************************)
(* Probed values                                                           *)
(***************************************************************************)
PropNames ==
    {"id", "toJSON", "name", "createdAt", "createdBy", "updatedAt",
     "updatedBy", "$version", "$release", "$irregulars", "$trash", "$search",
     "extra"}

Props(v) == {p \in PropNames : v[p] # Absent}

EmptyObject == [p \in PropNames |-> Absent]

SetProp(p, t) ==
    /\ Cardinality(Props(value) \cup {p}) <= MaxProps
    /\ value[p] # t
    /\ value' = [value EXCEPT ![p] = t]
    /\ UNCHANGED <<impl, store, last>>

DeleteProp(p) ==
    /\ value[p] # Absent
    /\ value' = [value EXCEPT ![p] = Absent]
    /\ UNCHANGED <<impl, store, last>>

NextShape ==
    \/ \E p \in PropNames, t \in Tags : SetProp(p, t)
    \/ \E p \in PropNames : DeleteProp(p)

(***************************************************************************)
(* C1: in both declaration families the rich shape keeps every member of   *)
(* the entity shape (id, toJSON, name), adds exactly createdAt, createdBy, *)
(* updatedAt, updatedBy, $version, $release, $irregulars, $trash and       *)
(* $search, all optional, and every value conforming to the rich shape     *)
(* conforms to the entity shape and to the identity shape for the same id  *)
(* and name types.                                                         *)
(***************************************************************************)
RichAdditions ==
    {"createdAt", "createdBy", "updatedAt", "updatedBy", "$version",
     "$release", "$irregulars", "$trash", "$search"}

C1_RichExtendsEntity ==
    \A f \in Families :
        LET rich == ShapeOf[f].rich
            ent  == ShapeOf[f].entity
            idl  == ShapeOf[f].identity
        IN  /\ MemberNames(ent) = {"id", "toJSON", "name"}
            /\ Members(ent) \subseteq Members(rich)
            /\ MemberNames(rich) \ MemberNames(ent) = RichAdditions
            /\ \A m \in Members(rich) : m.optional
            /\ \A I \in IdTypes, N \in NameTypes :
                  Conforms(value, rich, I, N) =>
                      /\ Conforms(value, ent, I, N)
                      /\ Conforms(value, idl, I, N)

\* A value with a name and a rich member that conforms to the rich shape.
C1_Witness ==
    /\ value["name"] = "map"
    /\ value["$version"] = "num"
    /\ \A f \in Families : Conforms(value, ShapeOf[f].rich, "string", "i18n")

(***************************************************************************)
(* C2 (as stated): for every id type and every name type, a value that     *)
(* conforms to the entity shape also conforms to the pair shape of the     *)
(* same id type.                                                           *)
(***************************************************************************)
C2_EntityIsPair ==
    \A f \in Families, I \in IdTypes, N \in NameTypes :
        Conforms(value, ShapeOf[f].entity, I, N) =>
            Conforms(value, ShapeOf[f].pair, I, N)

(***************************************************************************)
(* C2 (amended): a value that conforms to the entity shape conforms to the *)
(* pair shape of the same id type when the name type is the plain string,  *)
(* or, for any name type, when its name is absent or a plain string; an    *)
(* entity whose name is an internationalized map does not conform to the   *)
(* pair shape.                                                             *)
(***************************************************************************)
C2_PlainNamedEntityIsPair ==
    \A f \in Families, I \in IdTypes :
        LET ent == ShapeOf[f].entity
            pr  == ShapeOf[f].pair
        IN  /\ Conforms(value, ent, I, "string") => Conforms(value, pr, I, "string")
            /\ \A N \in NameTypes :
                  Conforms(value, ent, I, N) =>
                      (Conforms(value, pr, I, N) <=> value["name"] \in {Absent, "str"})

\* A plain-named entity with a numeric id, which is a pair as well.
C2_Witness ==
    /\ value["name"] = "str"
    /\ value["id"] = "num"
    /\ \A f \in Families :
          /\ Conforms(value, ShapeOf[f].entity, "number", "string")
          /\ Conforms(value, ShapeOf[f].pair, "number", "string")

(***************************************************************************)
(* Method catalogs                                                         *)
(***************************************************************************)
\* A declared method.
\*   dollar   the name carries the "$" prefix (internal method)
\*   optional declared with "?"
\*   ret      what the returned promise resolves to: E, E[], V, V[], P, P[], number
\*   key      the parameter that designates the record(s)
\*   throwing the signature has the parameter  throwing?: boolean
\*   throws   the doc comment carries  @throws RecordNotFoundException
\*   see      the doc comment carries  @see {@link $name}
Method(dollar, name, optional, ret, key, throwing, throws, see) ==
    [dollar |-> dollar, name |-> name, optional |-> optional, ret |-> ret,
     key |-> key, throwing |-> throwing, throws |-> throws, see |-> see]

\* The identity of a method in an object: its prefix and its name.
MethodId(m) == [dollar |-> m.dollar, name |-> m.name]
MethodIds(catalog) == {MethodId(m) : m \in catalog}
Public(name) == [dollar |-> FALSE, name |-> name]
Internal(name) == [dollar |-> TRUE, name |-> name]

RepositoryLike_RequiredFindById ==
    {Method(FALSE, "createOne",   TRUE, "E",      "doc",    FALSE, FALSE, FALSE),
     Method(FALSE, "updateById",  TRUE, "E",      "doc",    FALSE, FALSE, FALSE),
     Method(FALSE, "setById",     TRUE, "E",      "doc",    FALSE, FALSE, FALSE),
     Method(FALSE, "findById",    FALSE, "E",     "I",      FALSE, FALSE, FALSE),
     Method(FALSE, "findBySlug",  TRUE, "E",      "slug",   FALSE, FALSE, FALSE),
     Method(FALSE, "findByIds",   TRUE, "E[]",    "ids",    FALSE, FALSE, FALSE),
     Method(FALSE, "findMore",    TRUE, "E[]",    "filter", FALSE, FALSE, FALSE),
     Method(FALSE, "deleteById",  TRUE, "E",      "I",      FALSE, FALSE, FALSE),
     Method(FALSE, "deleteByIds", TRUE, "number", "ids",    FALSE, FALSE, FALSE),
     Method(FALSE, "trashById",   TRUE, "E",      "I",      FALSE, FALSE, FALSE),
     Method(FALSE, "trashByIds",  TRUE, "number", "ids",    FALSE, FALSE, FALSE)}

\* index.types.ts: interface RepositoryLike
RepositoryLike ==
    {Method(FALSE, "createOne",   TRUE, "E",      "doc",    FALSE, FALSE, FALSE),
     Method(FALSE, "updateById",  TRUE, "E",      "doc",    FALSE, FALSE, FALSE),
     Method(FALSE, "setById",     TRUE, "E",      "doc",    FALSE, FALSE, FALSE),
     Method(FALSE, "findById",    TRUE, "E",      "I",      FALSE, FALSE, FALSE),
     Method(FALSE, "findBySlug",  TRUE, "E",      "slug",   FALSE, FALSE, FALSE),
     Method(FALSE, "findByIds",   TRUE, "E[]",    "ids",    FALSE, FALSE, FALSE),
     Method(FALSE, "findMore",    TRUE, "E[]",    "filter", FALSE, FALSE, FALSE),
     Method(FALSE, "deleteById",  TRUE, "E",      "I",      FALSE, FALSE, FALSE),
     Method(FALSE, "deleteByIds", TRUE, "number", "ids",    FALSE, FALSE, FALSE),
     Method(FALSE, "trashById",   TRUE, "E",      "I",      FALSE, FALSE, FALSE),
     Method(FALSE, "trashByIds",  TRUE, "number", "ids",    FALSE, FALSE, FALSE)}

\* base-rich-entity-like.ts: interface BaseRepo (findBySlug takes slug: I)
BaseRepo ==
    {Method(FALSE, "createOne",   TRUE, "E",      "doc",    FALSE, FALSE, FALSE),
     Method(FALSE, "updateById",  TRUE, "E",      "doc",    FALSE, FALSE, FALSE),
     Method(FALSE, "setById",     TRUE, "E",      "doc",    FALSE, FALSE, FALSE),
     Method(FALSE, "findById",    TRUE, "E",      "I",      FALSE, FALSE, FALSE),
     Method(FALSE, "findBySlug",  TRUE, "E",      "I",      FALSE, FALSE, FALSE),
     Method(FALSE, "findByIds",   TRUE, "E[]",    "ids",    FALSE, FALSE, FALSE),
     Method(FALSE, "findMore",    TRUE, "E[]",    "filter", FALSE, FALSE, FALSE),
     Method(FALSE, "deleteById",  TRUE, "E",      "I",      FALSE, FALSE, FALSE),
     Method(FALSE, "deleteByIds", TRUE, "number", "ids",    FALSE, FALSE, FALSE),
     Method(FALSE, "trashById",   TRUE, "E",      "I",      FALSE, FALSE, FALSE),
     Method(FALSE, "trashByIds",  TRUE, "number", "ids",    FALSE, FALSE, FALSE)}

\* index.types.ts: interface ServiceBase
ServiceBase ==
    {Method(FALSE, "createOne",   TRUE, "V",      "dto",    FALSE, FALSE, TRUE),
     Method(FALSE, "prepareById", TRUE, "V",      "I?",     FALSE, FALSE, TRUE),
     Method(FALSE, "updateById",  TRUE, "V",      "I",      FALSE, FALSE, TRUE),
     Method(FALSE, "setById",     TRUE, "V",      "I",      FALSE, FALSE, TRUE),
     Method(FALSE, "findById",    TRUE, "V",      "I",      FALSE, FALSE, TRUE),
     Method(FALSE, "findBySlug",  TRUE, "V",      "slug",   FALSE, FALSE, TRUE),
     Method(FALSE, "findByIds",   TRUE, "V[]",    "ids",    FALSE, FALSE, FALSE),
     Method(FALSE, "findMore",    TRUE, "V[]",    "filter", FALSE, FALSE, TRUE),
     Method(FALSE, "deleteById",  TRUE, "P",      "I",      FALSE, FALSE, TRUE),
     Method(FALSE, "deleteByIds", TRUE, "number", "ids",    FALSE, FALSE, TRUE),
     Method(FALSE, "trashById",   TRUE, "P",      "I",      FALSE, FALSE, TRUE),
     Method(FALSE, "trashByIds",  TRUE, "P",      "ids",    FALSE, FALSE, TRUE)}

\* index.types.ts: interface ServicePair
ServicePair ==
    {Method(FALSE, "toPair",      TRUE, "P",      "doc",    FALSE, FALSE, FALSE),
     Method(FALSE, "toPairs",     TRUE, "P[]",    "docs",   FALSE, FALSE, FALSE),
     Method(FALSE, "fromPair",    TRUE, "E",      "pair",   FALSE, FALSE, FALSE),
     Method(FALSE, "fromPairs",   TRUE, "E[]",    "pairs",  FALSE, FALSE, FALSE),
     Method(FALSE, "pairById",    TRUE, "P",      "I",      FALSE, TRUE,  FALSE),
     Method(FALSE, "pairsByIds",  TRUE, "P[]",    "ids",    FALSE, FALSE, FALSE),
     Method(FALSE, "pairsMore",   TRUE, "P[]",    "query",  FALSE, FALSE, FALSE)}

\* index.types.ts: interface ServiceView
ServiceView ==
    {Method(FALSE, "toView",      TRUE, "V",      "doc",    FALSE, FALSE, FALSE),
     Method(FALSE, "toViews",     TRUE, "V[]",    "docs",   FALSE, FALSE, FALSE),
     Method(FALSE, "fromView",    TRUE, "E",      "view",   FALSE, FALSE, FALSE),
     Method(FALSE, "fromViews",   TRUE, "E[]",    "views",  FALSE, FALSE, FALSE)}

\* index.types.ts: interface ServiceInternal
ServiceInternal ==
    {Method(TRUE, "createOne",   TRUE, "E",      "GivenId?", FALSE, FALSE, FALSE),
     Method(TRUE, "prepareById", TRUE, "E",      "GivenId",  FALSE, TRUE,  FALSE),
     Method(TRUE, "updateById",  TRUE, "E",      "GivenId",  FALSE, TRUE,  FALSE),
     Method(TRUE, "setById",     TRUE, "E",      "GivenId",  FALSE, TRUE,  FALSE),
     Method(TRUE, "lookById",    TRUE, "E",      "GivenId",  TRUE,  TRUE,  FALSE),
     Method(TRUE, "findById",    TRUE, "E",      "GivenId",  FALSE, TRUE,  FALSE),
     Method(TRUE, "lookBySlug",  TRUE, "E",      "GivenSlug", TRUE, TRUE,  FALSE),
     Method(TRUE, "findBySlug",  TRUE, "E",      "GivenSlug", FALSE, TRUE, FALSE),
     Method(TRUE, "findByIds",   TRUE, "E[]",    "GivenIds", FALSE, FALSE, FALSE),
     Method(TRUE, "findMore",    TRUE, "E[]",    "filter",   FALSE, FALSE, FALSE),
     Method(TRUE, "deleteById",  TRUE, "E",      "GivenId",  FALSE, TRUE,  FALSE),
     Method(TRUE, "deleteByIds", TRUE, "number", "GivenIds", FALSE, FALSE, FALSE),
     Method(TRUE, "trashById",   TRUE, "E",      "GivenId",  FALSE, TRUE,  FALSE),
     Method(TRUE, "trashByIds",  TRUE, "number", "GivenIds", FALSE, FALSE, FALSE)}

ServiceLike_NoInternal == ServiceBase \cup ServicePair \cup ServiceView

\* index.types.ts: type ServiceLike = ServiceBase & ServicePair & ServiceView
\* & ServiceInternal: an intersection of interfaces has the members of each.
ServiceLike == ServiceBase \cup ServicePair \cup ServiceView \cup ServiceInternal

\* part_001: interface BaseServiceLike.  deleteById and pairsMore are declared
\* without "?"; $findBySlug takes I|Partial<P>|Partial<E>; there is no
\* fromView / fromViews.
BaseServiceLike ==
    {Method(TRUE,  "createOne",   TRUE, "E",      "GivenId?", FALSE, FALSE, FALSE),
     Method(FALSE, "createOne",   TRUE, "V",      "dto",      FALSE, FALSE, TRUE),
     Method(TRUE,  "prepareById", TRUE, "E",      "GivenId",  FALSE, TRUE,  FALSE),
     Method(FALSE, "prepareById", TRUE, "V",      "I?",       FALSE, FALSE, TRUE),
     Method(TRUE,  "updateById",  TRUE, "E",      "GivenId",  FALSE, TRUE,  FALSE),
     Method(FALSE, "updateById",  TRUE, "V",      "I",        FALSE, FALSE, TRUE),
     Method(TRUE,  "setById",     TRUE, "E",      "GivenId",  FALSE, TRUE,  FALSE),
     Method(FALSE, "setById",     TRUE, "V",      "I",        FALSE, FALSE, TRUE),
     Method(TRUE,  "lookById",    TRUE, "E",      "GivenId",  TRUE,  TRUE,  FALSE),
     Method(TRUE,  "findById",    TRUE, "E",      "GivenId",  FALSE, TRUE,  FALSE),
     Method(FALSE, "findById",    TRUE, "V",      "I",        FALSE, FALSE, TRUE),
     Method(TRUE,  "lookBySlug",  TRUE, "E",      "GivenSlug", TRUE, TRUE,  FALSE),
     Method(TRUE,  "findBySlug",  TRUE, "E",      "GivenId",  FALSE, TRUE,  FALSE),
     Method(FALSE, "findBySlug",  TRUE, "V",      "slug",     FALSE, FALSE, TRUE),
     Method(TRUE,  "findByIds",   TRUE, "E[]",    "GivenIds", FALSE, FALSE, FALSE),
     Method(FALSE, "findByIds",   TRUE, "V[]",    "ids",      FALSE, FALSE, FALSE),
     Method(TRUE,  "findMore",    TRUE, "E[]",    "filter",   FALSE, FALSE, FALSE),
     Method(FALSE, "findMore",    TRUE, "V[]",    "filter",   FALSE, FALSE, TRUE),
     Method(TRUE,  "deleteById",  TRUE, "E",      "GivenId",  FALSE, TRUE,  FALSE),
     Method(FALSE, "deleteById",  FALSE, "P",     "I",        FALSE, FALSE, TRUE),
     Method(TRUE,  "deleteByIds", TRUE, "number", "GivenIds", FALSE, FALSE, FALSE),
     Method(FALSE, "deleteByIds", TRUE, "number", "ids",      FALSE, FALSE, TRUE),
     Method(TRUE,  "trashById",   TRUE, "E",      "GivenId",  FALSE, TRUE,  FALSE),
     Method(FALSE, "trashById",   TRUE, "P",      "I",        FALSE, FALSE, TRUE),
     Method(TRUE,  "trashByIds",  TRUE, "number", "GivenIds", FALSE, FALSE, FALSE),
     Method(FALSE, "trashByIds",  TRUE, "P",      "ids",      FALSE, FALSE, TRUE),
     Method(FALSE, "toPair",      TRUE, "P",      "doc",      FALSE, FALSE, FALSE),
     Method(FALSE, "toPairs",     TRUE, "P[]",    "docs",     FALSE, FALSE, FALSE),
     Method(FALSE, "fromPair",    TRUE, "E",      "pair",     FALSE, FALSE, FALSE),
     Method(FALSE, "fromPairs",   TRUE, "E[]",    "pairs",    FALSE, FALSE, FALSE),
     Method(FALSE, "pairById",    TRUE, "P",      "I",        FALSE, TRUE,  FALSE),
     Method(FALSE, "pairsByIds",  TRUE, "P[]",    "ids",      FALSE, FALSE, FALSE),
     Method(FALSE, "pairsMore",   FALSE, "P[]",   "query",    FALSE, FALSE, FALSE),
     Method(FALSE, "toView",      TRUE, "V",      "doc",      FALSE, FALSE, FALSE),
     Method(FALSE, "toViews",     TRUE, "V[]",    "docs",     FALSE, FALSE, FALSE)}

\* The repository and the service contract of each family.
Repository == [index |-> RepositoryLike, base |-> BaseRepo]
Service == [index |-> ServiceLike, base |-> BaseServiceLike]

AllMethodIds ==
    UNION {MethodIds(Repository[f]) \cup MethodIds(Service[f]) : f \in Families}

\* An object (the set of methods it provides) conforms to a catalog when it
\* provides every method the catalog declares without "?".
Implements(obj, catalog) ==
    \A m \in catalog : ~m.optional => MethodId(m) \in obj

(***************************************************************************)
(* Probed implementations                                                  *)
(***************************************************************************)
Provide(id) ==
    /\ id \notin impl
    /\ Cardinality(impl) < MaxImpl
    /\ impl' = impl \cup {id}
    /\ UNCHANGED <<value, store, last>>

Withdraw(id) ==
    /\ id \in impl
    /\ impl' = impl \ {id}
    /\ UNCHANGED <<value, store, last>>

NextImpl ==
    \/ \E id \in AllMethodIds : Provide(id)
    \/ \E id \in AllMethodIds : Withdraw(id)

(***************************************************************************)
(* C3: the repository contract declares exactly createOne, updateById,     *)
(* setById, findById, findBySlug, findByIds, findMore, deleteById,         *)
(* deleteByIds, trashById and trashByIds, every one optional: an           *)
(* implementation providing any subset of them, including none, conforms.  *)
(***************************************************************************)
RepositoryMethodNames ==
    {"createOne", "updateById", "setById", "findById", "findBySlug",
     "findByIds", "findMore", "deleteById", "deleteByIds", "trashById",
     "trashByIds"}

C3_RepositoryAllOptional ==
    \A f \in Families :
        /\ MethodIds(Repository[f]) = {Public(n) : n \in RepositoryMethodNames}
        /\ \A m \in Repository[f] : m.optional
        /\ Implements({}, Repository[f])
        /\ Implements(impl, Repository[f])

\* An implementation that provides a proper, non-empty subset of the methods.
C3_Witness ==
    /\ impl = {Public("findById"), Public("trashById")}
    /\ \A f \in Families : Implements(impl, Repository[f])

(***************************************************************************)
(* C4: the service contract is a parallel superset of the repository       *)
(* contract: for every method name m of the repository contract it         *)
(* declares a public m and an internal $m, and it declares further methods *)
(* (prepare, look, pair and view conversions) the repository lacks.        *)
(***************************************************************************)
C4_ServiceSupersetOfRepository ==
    \A f \in Families :
        /\ \A m \in Repository[f] :
              /\ Public(m.name) \in MethodIds(Service[f])
              /\ Internal(m.name) \in MethodIds(Service[f])
        /\ {Public("prepareById"), Internal("prepareById"), Internal("lookById"),
            Internal("lookBySlug"), Public("toPair"), Public("toPairs"),
            Public("fromPair"), Public("fromPairs"), Public("pairById"),
            Public("toView"), Public("toViews")}
               \subseteq MethodIds(Service[f]) \ MethodIds(Repository[f])
        /\ \A id \in impl :
              id \in MethodIds(Repository[f]) =>
                  {Public(id.name), Internal(id.name)} \subseteq MethodIds(Service[f])

\* An implementation providing a repository method and its internal twin.
C4_Witness ==
    /\ impl = {Public("trashByIds"), Internal("trashByIds")}
    /\ \A f \in Families :
          /\ Public("trashByIds") \in MethodIds(Repository[f])
          /\ impl \subseteq MethodIds(Service[f])

(***************************************************************************)
(* The service over a record store, as the signatures and their doc        *)
(* comments prescribe it                                                   *)
(***************************************************************************)
Ids == 1..MaxIds
NoId == 0

\* A stored record is identified by its id and carries its $trash marker:
\* "null" (not deleted) or a trash id.  "missing": no record has the id.
Missing == "missing"
Null == "null"
TrashMark == "mark"

\* GivenId<I> = I | Partial<EntityIdLike<I>>: a raw id, an object that carries
\* the id, or an object without id (Partial makes id optional).  "none": the
\* optional argument is omitted.
Raw(i) == [form |-> "raw", id |-> i, ids |-> {}]
Obj(i) == [form |-> "object", id |-> i, ids |-> {}]
EmptyObj == [form |-> "empty", id |-> NoId, ids |-> {}]
Omitted == [form |-> "none", id |-> NoId, ids |-> {}]

GivenId == {Raw(i) : i \in Ids} \cup {Obj(i) : i \in Ids} \cup {EmptyObj}

\* The argument forms a method's key parameter admits.
Given(m) ==
    CASE m.key = "GivenId"   -> GivenId
      [] m.key = "GivenSlug" -> GivenId
      [] m.key = "GivenId?"  -> GivenId \cup {Omitted}
      [] m.key = "I"         -> {Raw(i) : i \in Ids}
      [] m.key = "slug"      -> {Raw(i) : i \in Ids}
      [] m.key = "I?"        -> {Raw(i) : i \in Ids} \cup {Omitted}
      [] OTHER               -> {Omitted}

ResolveId_RawOnly(given) == IF given.form = "raw" THEN given.id ELSE NoId

\* The id an argument designates.
ResolveId(given) == IF given.form \in {"raw", "object"} THEN given.id ELSE NoId

Exists(i) == i \in Ids /\ store[i] # Missing

\* throwing?: boolean
Throwing(m) == IF m.throwing THEN {"true", "false", "omitted"} ELSE {"omitted"}

\* The internal method a public method's @see names.
SeeTarget(f, m) == {t \in Service[f] : m.see /\ t.dollar /\ t.name = m.name}

\* Whether the contract of m documents the not-found exception: by its own
\* @throws tag or by that of the internal method it refers to.
Throws(f, m) == m.throws \/ \E t \in SeeTarget(f, m) : t.throws

MissingOutcome_Undefined(f, m, throwing) == "undefined"

MissingOutcome_AlwaysRaises(f, m, throwing) ==
    IF Throws(f, m) THEN "notFound" ELSE "undefined"

\* The outcome of a call when no record matches: the exception when the
\* contract documents it and, where the signature has the throwing parameter,
\* the caller asked for it; else the promise resolves to undefined.
MissingOutcome(f, m, throwing) ==
    IF Throws(f, m) /\ (m.throwing => throwing = "true")
    THEN "notFound" ELSE "undefined"

ResultKind_View(m) == IF m.ret = "E" THEN "V" ELSE m.ret

\* What a call resolves to when it succeeds: the declared Promise<...>.
ResultKind(m) == m.ret

Call(f, m, given, throwing, found, outcome, ids, generated) ==
    [family |-> f, dollar |-> m.dollar, name |-> m.name, given |-> given,
     throwing |-> throwing, found |-> found, outcome |-> outcome, ids |-> ids,
     generated |-> generated]

\* No call has been made yet.
NoCall ==
    [family |-> "none", dollar |-> FALSE, name |-> "none", given |-> Omitted,
     throwing |-> "omitted", found |-> FALSE, outcome |-> "none", ids |-> {},
     generated |-> FALSE]

CreatedIds_AlwaysGenerates(given) == {i \in Ids : ~Exists(i)}

\* The ids the created record can get: the given one ("existingId will be
\* used for id"), else a generated one, which no record has yet.
CreatedIds(given) ==
    IF ResolveId(given) # NoId THEN {ResolveId(given)}
    ELSE {i \in Ids : ~Exists(i)}

\* createOne / $createOne.  The contract is silent on an existingId that a
\* record already has and on an object without id: the call may be rejected,
\* or the record is written all the same.
CreateOne(f, m, given) ==
    /\ m.name = "createOne"
    /\ given \in Given(m)
    /\ \/ \E i \in CreatedIds(given) :
             /\ store' = [store EXCEPT ![i] = Null]
             /\ last' = Call(f, m, given, "omitted", Exists(i), ResultKind(m),
                             {i}, ResolveId(given) = NoId)
       \/ /\ given = EmptyObj \/ Exists(ResolveId(given))
          /\ store' = store
          /\ last' = Call(f, m, given, "omitted", Exists(ResolveId(given)),
                          "rejected", {}, FALSE)
    /\ UNCHANGED <<value, impl>>

\* prepareById / $prepareById: without id it collects sample data; with an id
\* it fetches the record, and raises not-found when there is none.
PrepareById(f, m, given) ==
    /\ m.name = "prepareById"
    /\ given \in Given(m)
    /\ last' =
         IF ResolveId(given) = NoId
         THEN Call(f, m, given, "omitted", FALSE, ResultKind(m), {}, FALSE)
         ELSE IF Exists(ResolveId(given))
         THEN Call(f, m, given, "omitted", TRUE, ResultKind(m),
                   {ResolveId(given)}, FALSE)
         ELSE Call(f, m, given, "omitted", FALSE,
                   MissingOutcome(f, m, "omitted"), {}, FALSE)
    /\ UNCHANGED <<value, impl, store>>

\* The methods that take one id or slug and leave the set of records as it
\* is: updateById, setById, lookById, findById, lookBySlug, findBySlug and
\* pairById, public and internal.
OneRecordNames ==
    {"updateById", "setById", "lookById", "findById", "lookBySlug",
     "findBySlug", "pairById"}

ByKey(f, m, given, throwing) ==
    /\ m.name \in OneRecordNames
    /\ given \in Given(m)
    /\ throwing \in Throwing(m)
    /\ last' =
         IF Exists(ResolveId(given))
         THEN Call(f, m, given, throwing, TRUE, ResultKind(m),
                   {ResolveId(given)}, FALSE)
         ELSE Call(f, m, given, throwing, FALSE,
                   MissingOutcome(f, m, throwing), {}, FALSE)
    /\ UNCHANGED <<value, impl, store>>

\* deleteById / $deleteById: hard delete.
DeleteById(f, m, given) ==
    /\ m.name = "deleteById"
    /\ given \in Given(m)
    /\ IF Exists(ResolveId(given))
       THEN /\ store' = [store EXCEPT ![ResolveId(given)] = Missing]
            /\ last' = Call(f, m, given, "omitted", TRUE, ResultKind(m),
                            {ResolveId(given)}, FALSE)
       ELSE /\ store' = store
            /\ last' = Call(f, m, given, "omitted", FALSE,
                            MissingOutcome(f, m, "omitted"), {}, FALSE)
    /\ UNCHANGED <<value, impl>>

TrashById_Removes(f, m, given) ==
    /\ m.name = "trashById"
    /\ given \in Given(m)
    /\ IF Exists(ResolveId(given))
       THEN /\ store' = [store EXCEPT ![ResolveId(given)] = Missing]
            /\ last' = Call(f, m, given, "omitted", TRUE, ResultKind(m),
                            {ResolveId(given)}, FALSE)
       ELSE /\ store' = store
            /\ last' = Call(f, m, given, "omitted", FALSE,
                            MissingOutcome(f, m, "omitted"), {}, FALSE)
    /\ UNCHANGED <<value, impl>>

\* trashById / $trashById: soft delete, the record keeps existing and its
\* $trash marker is set.
TrashById(f, m, given) ==
    /\ m.name = "trashById"
    /\ given \in Given(m)
    /\ IF Exists(ResolveId(given))
       THEN /\ store' = [store EXCEPT ![ResolveId(given)] = TrashMark]
            /\ last' = Call(f, m, given, "omitted", TRUE, ResultKind(m),
                            {ResolveId(given)}, FALSE)
       ELSE /\ store' = store
            /\ last' = Call(f, m, given, "omitted", FALSE,
                            MissingOutcome(f, m, "omitted"), {}, FALSE)
    /\ UNCHANGED <<value, impl>>

\* The methods that take a list of ids: the ids are given as a set; the
\* records among them that exist are the ones the call works on.
ManyGiven(ids) == [form |-> "list", id |-> NoId, ids |-> ids]
Existing(ids) == {i \in ids : Exists(i)}

\* findByIds / $findByIds / pairsByIds
ByIds(f, m, ids) ==
    /\ m.name \in {"findByIds", "pairsByIds"}
    /\ last' = Call(f, m, ManyGiven(ids), "omitted", Existing(ids) # {},
                    ResultKind(m), Existing(ids), FALSE)
    /\ UNCHANGED <<value, impl, store>>

\* deleteByIds / $deleteByIds
DeleteByIds(f, m, ids) ==
    /\ m.name = "deleteByIds"
    /\ store' = [i \in Ids |-> IF i \in ids THEN Missing ELSE store[i]]
    /\ last' = Call(f, m, ManyGiven(ids), "omitted", Existing(ids) # {},
                    ResultKind(m), Existing(ids), FALSE)
    /\ UNCHANGED <<value, impl>>

\* trashByIds / $trashByIds
TrashByIds(f, m, ids) ==
    /\ m.name = "trashByIds"
    /\ store' = [i \in Ids |-> IF i \in Existing(ids) THEN TrashMark ELSE store[i]]
    /\ last' = Call(f, m, ManyGiven(ids), "omitted", Existing(ids) # {},
                    ResultKind(m), Existing(ids), FALSE)
    /\ UNCHANGED <<value, impl>>

\* findMore / $findMore / pairsMore: the records a filter or query selects.
More(f, m, ids) ==
    /\ m.name \in {"findMore", "pairsMore"}
    /\ ids \subseteq Existing(Ids)
    /\ last' = Call(f, m, Omitted, "omitted", ids # {}, ResultKind(m), ids, FALSE)
    /\ UNCHANGED <<value, impl, store>>

\* toPair(s), fromPair(s), toView(s), fromView(s): conversions of the
\* documents handed in; no record is read or written.
ConvertNames ==
    {"toPair", "toPairs", "fromPair", "fromPairs",
     "toView", "toViews", "fromView", "fromViews"}

Convert(f, m, ids) ==
    /\ m.name \in ConvertNames
    /\ m.key \in {"doc", "pair", "view"} => Cardinality(ids) = 1
    /\ last' = Call(f, m, ManyGiven(ids), "omitted", FALSE, ResultKind(m), ids, FALSE)
    /\ UNCHANGED <<value, impl, store>>

\* The methods of the service contract of family f with one of the names.
Named(f, names) == {m \in Service[f] : m.name \in names}

NextService ==
    \E f \in Families :
        \/ \E m \in Named(f, {"createOne"}) :
              \E given \in Given(m) : CreateOne(f, m, given)
        \/ \E m \in Named(f, {"prepareById"}) :
              \E given \in Given(m) : PrepareById(f, m, given)
        \/ \E m \in Named(f, OneRecordNames) :
              \E given \in Given(m), throwing \in Throwing(m) :
                  ByKey(f, m, given, throwing)
        \/ \E m \in Named(f, {"deleteById"}) :
              \E given \in Given(m) : DeleteById(f, m, given)
        \/ \E m \in Named(f, {"trashById"}) :
              \E given \in Given(m) : TrashById(f, m, given)
        \/ \E m \in Named(f, {"findByIds", "pairsByIds"}) :
              \E ids \in SUBSET Ids : ByIds(f, m, ids)
        \/ \E m \in Named(f, {"deleteByIds"}) :
              \E ids \in SUBSET Ids : DeleteByIds(f, m, ids)
        \/ \E m \in Named(f, {"trashByIds"}) :
              \E ids \in SUBSET Ids : TrashByIds(f, m, ids)
        \/ \E m \in Named(f, {"findMore", "pairsMore"}) :
              \E ids \in SUBSET Ids : More(f, m, ids)
        \/ \E m \in Named(f, ConvertNames) :
              \E ids \in SUBSET Ids : Convert(f, m, ids)

Init ==
    /\ value = EmptyObject
    /\ impl = {}
    /\ store = [i \in Ids |-> Missing]
    /\ last = NoCall

SpecShape == Init /\ [][NextShape]_vars

SpecImpl == Init /\ [][NextImpl]_vars

SpecService == Init /\ [][NextService]_vars

(***************************************************************************)
(* Claims about the service                                                *)
(***************************************************************************)
\* The last call resolved to a result of its declared kind (it neither
\* raised nor resolved to undefined).
Resolved == last.outcome \in {"E", "E[]", "V", "V[]", "P", "P[]", "number"}

BulkCountNames == {"deleteByIds", "trashByIds"}

(***************************************************************************)
(* C5 (as stated): every internal ($-prefixed) method of the service       *)
(* contract resolves to the entity type E or to a list of E, never to a    *)
(* view, a pair or another kind of value.                                  *)
(***************************************************************************)
C5_InternalReturnsEntity ==
    (last.dollar /\ Resolved) => last.outcome \in {"E", "E[]"}

(***************************************************************************)
(* C5 (amended): every internal method of the service contract other than  *)
(* $deleteByIds and $trashByIds is declared to resolve to E or to a list   *)
(* of E and, when it resolves to a result, does so; $deleteByIds and       *)
(* $trashByIds resolve to a number; no internal method resolves to a view  *)
(* or a pair.                                                              *)
(***************************************************************************)
C5_InternalReturnsEntityOrCount ==
    /\ \A f \in Families : \A m \in Service[f] :
          m.dollar =>
              IF m.name \in BulkCountNames THEN ResultKind(m) = "number"
              ELSE ResultKind(m) \in {"E", "E[]"}
    /\ (last.dollar /\ Resolved) =>
          IF last.name \in BulkCountNames THEN last.outcome = "number"
          ELSE last.outcome \in {"E", "E[]"}

\* An internal bulk trash of existing records resolved to a number, in the
\* declaration of either family.
C5_Witness ==
    /\ last.dollar
    /\ last.name = "trashByIds"
    /\ last.family = "base"
    /\ last.ids # {}
    /\ last.outcome = "number"

(***************************************************************************)
(* C6: every public CRUD method of the service contract (createOne,        *)
(* prepareById, updateById, setById, findById, findBySlug, findByIds,      *)
(* findMore, deleteById, deleteByIds, trashById, trashByIds) resolves to   *)
(* the view type V or to a list of V, never to the raw entity type E.      *)
(***************************************************************************)
PublicCrudNames ==
    {"createOne", "prepareById", "updateById", "setById", "findById",
     "findBySlug", "findByIds", "findMore", "deleteById", "deleteByIds",
     "trashById", "trashByIds"}

C6_PublicCrudReturnsView ==
    (~last.dollar /\ last.name \in PublicCrudNames /\ Resolved) =>
        last.outcome \in {"V", "V[]"}

FindNames ==
    {"lookById", "findById", "lookBySlug", "findBySlug", "pairById",
     "prepareById"}

C11_AfterTrash ==
    (last.name = "trashById" /\ last.found) =>
        /\ last.ids = {ResolveId(last.given)}
        /\ Exists(ResolveId(last.given))
        /\ store[ResolveId(last.given)] # Null

C11_AfterDelete ==
    (last.name = "deleteById" /\ last.found) =>
        /\ last.ids = {ResolveId(last.given)}
        /\ ~Exists(ResolveId(last.given))

C11_NullMarkerStep ==
    \A i \in Ids :
        store[i] = Null =>
            /\ Exists(i)
            /\ store'[i] = Missing =>
                  /\ last'.name \in {"deleteById", "deleteByIds"}
                  /\ i = ResolveId(last'.given) \/ i \in last'.given.ids
            /\ store'[i] \notin {Null, Missing} =>
                  /\ last'.name \in {"trashById", "trashByIds"}
                  /\ i = ResolveId(last'.given) \/ i \in last'.given.ids

C11_LaterFindStep ==
    \A i \in Ids :
        (~Exists(i) /\ last'.name \in FindNames /\ ResolveId(last'.given) = i) =>
            /\ ~last'.found
            /\ last'.ids = {}
            /\ last'.outcome \in {"notFound", "undefined"}

InternalByIdNames ==
    {"prepareById", "updateById", "setById", "lookById", "findById",
     "deleteById", "trashById"}

\* What $lookById gives for id i, whichever form carries it.
C12_Expected(i, throwing) ==
    [found   |-> Exists(i),
     outcome |-> IF Exists(i) THEN "E"
                 ELSE IF throwing = "true" THEN "notFound" ELSE "undefined",
     ids     |-> IF Exists(i) THEN {i} ELSE {}]

C13_ServiceAllOptional ==
    \A f \in Families :
        /\ \A m \in Service[f] : m.optional
        /\ Implements({}, Service[f])
        /\ Implements(impl, Service[f])

====
